---- MODULE Spec2Model ----
(***************************************************************************)
(* Model of the SGP30 driver session (sensor/sgp30sensor.go): the CRC-8    *)
(* guarded word framing, readWords, and the operations Init, Measure,      *)
(* GetBaseline, SetBaseline and Close on one SGP30Sensor value.  The       *)
(* i2c transport is the environment: every Write, Read and Close it is     *)
(* asked for may fail, and a successful Read fills the buffer with bytes   *)
(* drawn from Replies(n).                                                  *)
(***************************************************************************)
EXTENDS Integers, Sequences, FiniteSets, TLC

VARIABLES
    conn,       \* SGP30Sensor.i2cConnection: Nil, TypedNil or a device
    SerialID,   \* SGP30Sensor.SerialID
    opens,      \* number of devices the session was given so far
    closedDevs, \* the devices whose Close has been called
    lastOp,     \* the exported method that just returned, "none" between calls
    args,       \* the arguments it was called with
    connBefore, \* SGP30Sensor.i2cConnection when it was called
    lastInit,   \* the error the latest Init returned, "never" before any Init
    err,        \* the error it returned ("nil" for none)
    ret,        \* the words it returned
    trace,      \* the transport calls it made, in order
    panicked    \* the call dereferenced a nil *i2c.Device

vars ==
    <<conn, SerialID, opens, closedDevs, lastOp, args, connBefore, lastInit,
      err, ret, trace, panicked>>

---------------------------------------------------------------------------
(* Bounds of the model *)

\* devices the session is given in one run
MaxOpens == 2

\* the words the caller passes to SetBaseline: 0x0020, 0x0102, 0x0304
Words == {32, 258, 772}

\* the 3-byte groups a successful Read delivers: the framed words 0x0020 and
\* 0x0102 and the groups 01 02 00 and 03 04 50, whose third byte is not the
\* checksum
Frames == {<<0, 32, 7>>, <<1, 2, 23>>, <<1, 2, 0>>, <<3, 4, 80>>}

\* the longest byte sequence over CrcBytes a checksum is taken of
MaxCrcLen == 3

\* the bytes those sequences are made of
CrcBytes == {0, 1, 2, 49, 128, 255}

\* the byte sequences TestCrcGeneration takes the checksum of
CrcVectors ==
    {<<49>>, <<49, 50, 51, 52>>, <<1, 2>>, <<3, 4>>, <<5, 6>>, <<0, 32>>,
     <<49, 50, 51, 52, 53, 54, 55, 56, 57>>}

\* the words the lists given to combineWords are made of: 0, 0xFFFF and the
\* words of TestCombineWords
CombineWordSet == {0, 4660, 22136, 17185, 34661, 56510, 37035, 52719, 65535}

\* error values the transport returns from Write, Read and Close
TransportErrs == {"EIO", "EREMOTEIO"}

\* error values i2c.Open returns
OpenErrs == {"EACCES"}

---------------------------------------------------------------------------
(* Command codes and CRC parameters *)

InitAirQuality == 8195          \* 0x2003
MeasureAirQuality == 8200       \* 0x2008
GetBaselineCmd == 8213          \* 0x2015
SetBaselineCmd == 8222          \* 0x201e
GetFeatureSetVersion == 8239    \* 0x202f
GetSerialID == 13954            \* 0x3682
ExpectedFeatureSet == 32        \* 0x0020

Crc8Polynomial == 49            \* 0x31
Crc8Init == 255                 \* 0xFF
Crc8XorOut == 0                 \* 0x00
Crc8Check == 247                \* 0xF7

\* the largest uint16
MaxUint16 == 65535

\* the bytes of a uint64, the length of combineWords' buffer
CombinedBytes == 8

---------------------------------------------------------------------------
(* Values of the i2cConnection field and of error returns *)

\* An i2CConnection interface value is its dynamic type and its pointer;
\* pointer 0 is the nil pointer, the others name the devices opened.
\* The nil interface value: NewSensor leaves the field unset
Nil == [type |-> "nil", ptr |-> 0]
\* a non-nil interface value holding the *i2c.Device d
Device(d) == [type |-> "*i2c.Device", ptr |-> d]
\* a non-nil interface value holding a nil *i2c.Device
TypedNil == Device(0)
Handles == {Device(d) : d \in 1..MaxOpens}

NoErr == "nil"
ErrNotConnected == "i2c not connected"
ErrAlreadyClosed == "connection already closed"
ErrPathNotFound == "i2c FS path not found"
ErrSensorNotFound == "sgp30 sensor not found"
ErrPanic == "panic: nil pointer dereference"

---------------------------------------------------------------------------
(* Bytes *)

RECURSIVE XorBits(_, _, _)
XorBits(a, b, n) ==
    IF n = 0 THEN 0
    ELSE ((a + b) % 2) + 2 * XorBits(a \div 2, b \div 2, n - 1)

\* a ^ b on uint8
Xor8(a, b) == XorBits(a, b, 8)

\* binary.BigEndian.PutUint16
PutUint16(w) == <<(w \div 256) % 256, w % 256>>

\* binary.BigEndian.Uint16
Uint16(hi, lo) == hi * 256 + lo

\* binary.BigEndian.Uint64 of 8 bytes; a uint64 is held as its four 16-bit
\* digits, most significant first
Uint64(b) ==
    <<b[1] * 256 + b[2], b[3] * 256 + b[4], b[5] * 256 + b[6], b[7] * 256 + b[8]>>

\* the uint64 0
Zero64 == <<0, 0, 0, 0>>

---------------------------------------------------------------------------
(* CRC-8 *)

RECURSIVE CrcShift(_, _)
CrcShift(crc, i) ==
    IF i = 0 THEN crc
    ELSE LET shifted == (crc * 2) % 256
         IN  CrcShift(IF crc >= 128 THEN Xor8(shifted, Crc8Polynomial) ELSE shifted,
                      i - 1)

\* crc8.MakeTable for the non-reflected parameters NewSensor passes
crcTable == [n \in 0..255 |-> CrcShift(n, 8)]

RECURSIVE CrcUpdate(_, _)
CrcUpdate(crc, data) ==
    IF data = <<>> THEN crc
    ELSE CrcUpdate(crcTable[Xor8(crc, Head(data))], Tail(data))

\* the checksum with the register starting at 0
generateCrc_zeroInit(data) == Xor8(CrcUpdate(0, data), Crc8XorOut)

\* crc8.Checksum(data, s.crcTable)
generateCrc(data) == Xor8(CrcUpdate(Crc8Init, data), Crc8XorOut)

\* packWordCrc putting the low byte of the word first
packWordCrc_littleEndian(word) ==
    <<word % 256, (word \div 256) % 256,
      generateCrc(<<word % 256, (word \div 256) % 256>>)>>

\* buffer = BigEndian(word) ++ crc(buffer)
packWordCrc(word) == PutUint16(word) \o <<generateCrc(PutUint16(word))>>

---------------------------------------------------------------------------
(* The transport *)

\* the buffers of n groups a successful Read may fill in
RECURSIVE Replies(_)
Replies(n) ==
    IF n = 0 THEN {<<>>}
    ELSE {f \o r : f \in Frames, r \in Replies(n - 1)}

\* what the transport does in one readWords call that expects n words:
\* w is the error Write returns, r the error Read returns, data the bytes
\* Read fills in
Outcomes(n) ==
    {[w |-> e, r |-> NoErr, data |-> <<>>] : e \in TransportErrs}
    \cup (IF n = 0
          THEN {[w |-> NoErr, r |-> NoErr, data |-> <<>>]}
          ELSE {[w |-> NoErr, r |-> e, data |-> <<>>] : e \in TransportErrs}
               \cup {[w |-> NoErr, r |-> NoErr, data |-> d] : d \in Replies(n)})

\* what os.Stat and i2c.Open do in one startI2CConnection: stat is whether
\* the path exists, open the error i2c.Open returns
StartOutcomes ==
    {[stat |-> FALSE, open |-> NoErr]}
    \cup {[stat |-> TRUE, open |-> e] : e \in OpenErrs \cup {NoErr}}

\* the transport is not called, or all its calls succeed with no data
NoOutcome == [w |-> NoErr, r |-> NoErr, data |-> <<>>]

\* os.Stat and i2c.Open are not called
NoStart == [stat |-> TRUE, open |-> NoErr]

Range(f) == {f[i] : i \in DOMAIN f}

\* one call of a transport method, as a test double records it
WriteEv(h, buf, e) == [op |-> "write", h |-> h, n |-> Len(buf), data |-> buf, err |-> e]
ReadEv(h, n, buf, e) == [op |-> "read", h |-> h, n |-> n, data |-> buf, err |-> e]
CloseEv(h, e) == [op |-> "close", h |-> h, n |-> 0, data |-> <<>>, err |-> e]

---------------------------------------------------------------------------
(* readWords *)

\* readWords and Close without their nil check
isNil_never(c) == FALSE

\* s.i2cConnection == nil
isNil(c) == c = Nil

\* fmt's %x of a byte
HexDigits ==
    <<"0", "1", "2", "3", "4", "5", "6", "7", "8", "9", "a", "b", "c", "d", "e", "f">>

Hex(n) ==
    IF n < 16 THEN HexDigits[n + 1]
    ELSE HexDigits[(n \div 16) + 1] \o HexDigits[(n % 16) + 1]

\* fmt.Errorf("crc mismatch %x, %x", crc, generatedCrc)
ErrCrcMismatch(crc, generatedCrc) ==
    "crc mismatch " \o Hex(crc) \o ", " \o Hex(generatedCrc)

\* the decoding loop returning, on a mismatch, the words decoded before it
RECURSIVE decodeWords_partial(_, _, _, _)
decodeWords_partial(crcResult, replySize, i, result) ==
    IF i = replySize THEN [result |-> result, err |-> NoErr]
    ELSE LET word == <<crcResult[3 * i + 1], crcResult[3 * i + 2]>>
             crc == crcResult[3 * i + 3]
             generatedCrc == generateCrc(word)
         IN  IF generatedCrc # crc
             THEN [result |-> result, err |-> ErrCrcMismatch(crc, generatedCrc)]
             ELSE decodeWords_partial(crcResult, replySize, i + 1,
                                      Append(result, Uint16(word[1], word[2])))

\* the decoding loop of readWords over the bytes read
RECURSIVE decodeWords(_, _, _, _)
decodeWords(crcResult, replySize, i, result) ==
    IF i = replySize THEN [result |-> result, err |-> NoErr]
    ELSE LET word == <<crcResult[3 * i + 1], crcResult[3 * i + 2]>>
             crc == crcResult[3 * i + 3]
             generatedCrc == generateCrc(word)
         IN  IF generatedCrc # crc
             THEN [result |-> <<>>, err |-> ErrCrcMismatch(crc, generatedCrc)]
             ELSE decodeWords(crcResult, replySize, i + 1,
                              Append(result, Uint16(word[1], word[2])))

\* crcResult after Read: make([]byte, n) with the bytes Read filled in
readBuffer(n, data) == SubSeq(data \o <<0, 0, 0, 0, 0, 0, 0, 0, 0>>, 1, n)

\* readWords going on to the checksums after a failed read
readWords_ignoreRead(c, command, replySize, o) ==
    IF isNil(c)
    THEN [result |-> <<>>, err |-> ErrNotConnected, ev |-> <<>>, panic |-> FALSE]
    ELSE IF c = TypedNil
    THEN [result |-> <<>>, err |-> ErrPanic, ev |-> <<>>, panic |-> TRUE]
    ELSE IF o.w # NoErr
    THEN [result |-> <<>>, err |-> o.w,
          ev |-> <<WriteEv(c, command, o.w)>>, panic |-> FALSE]
    ELSE IF replySize = 0
    THEN [result |-> <<>>, err |-> NoErr,
          ev |-> <<WriteEv(c, command, NoErr)>>, panic |-> FALSE]
    ELSE LET Decoded(crcResult, dec) ==
                 [result |-> dec.result, err |-> dec.err,
                  ev |-> <<WriteEv(c, command, NoErr),
                           ReadEv(c, replySize * 3, crcResult, o.r)>>,
                  panic |-> FALSE]
             Filled(crcResult) ==
                 Decoded(crcResult, decodeWords(crcResult, replySize, 0, <<>>))
         IN  Filled(readBuffer(replySize * 3, o.data))

\* readWords going on to the read after a failed write
readWords_ignoreWrite(c, command, replySize, o) ==
    IF isNil(c)
    THEN [result |-> <<>>, err |-> ErrNotConnected, ev |-> <<>>, panic |-> FALSE]
    ELSE IF c = TypedNil
    THEN [result |-> <<>>, err |-> ErrPanic, ev |-> <<>>, panic |-> TRUE]
    ELSE IF replySize = 0
    THEN [result |-> <<>>, err |-> NoErr,
          ev |-> <<WriteEv(c, command, o.w)>>, panic |-> FALSE]
    ELSE IF o.r # NoErr
    THEN [result |-> <<>>, err |-> o.r,
          ev |-> <<WriteEv(c, command, o.w), ReadEv(c, replySize * 3, <<>>, o.r)>>,
          panic |-> FALSE]
    ELSE LET Decoded(crcResult, dec) ==
                 [result |-> dec.result, err |-> dec.err,
                  ev |-> <<WriteEv(c, command, o.w),
                           ReadEv(c, replySize * 3, crcResult, NoErr)>>,
                  panic |-> FALSE]
             Filled(crcResult) ==
                 Decoded(crcResult, decodeWords(crcResult, replySize, 0, <<>>))
         IN  Filled(readBuffer(replySize * 3, o.data))

\* readWords(command, replySize) on connection c, the transport doing o
readWords(c, command, replySize, o) ==
    IF isNil(c)
    THEN [result |-> <<>>, err |-> ErrNotConnected, ev |-> <<>>, panic |-> FALSE]
    ELSE IF c = TypedNil
    THEN [result |-> <<>>, err |-> ErrPanic, ev |-> <<>>, panic |-> TRUE]
    ELSE IF o.w # NoErr
    THEN [result |-> <<>>, err |-> o.w,
          ev |-> <<WriteEv(c, command, o.w)>>, panic |-> FALSE]
    ELSE IF replySize = 0
    THEN [result |-> <<>>, err |-> NoErr,
          ev |-> <<WriteEv(c, command, NoErr)>>, panic |-> FALSE]
    ELSE IF o.r # NoErr
    THEN [result |-> <<>>, err |-> o.r,
          ev |-> <<WriteEv(c, command, NoErr), ReadEv(c, replySize * 3, <<>>, o.r)>>,
          panic |-> FALSE]
    ELSE LET Decoded(crcResult, dec) ==
                 [result |-> dec.result, err |-> dec.err,
                  ev |-> <<WriteEv(c, command, NoErr),
                           ReadEv(c, replySize * 3, crcResult, NoErr)>>,
                  panic |-> FALSE]
             Filled(crcResult) ==
                 Decoded(crcResult, decodeWords(crcResult, replySize, 0, <<>>))
         IN  Filled(readBuffer(replySize * 3, o.data))

readWordsUint(c, command, replySize, o) ==
    readWords(c, PutUint16(command), replySize, o)

\* combineWords filling the buffer from its end with the first word first
RECURSIVE combineFill_forward(_, _, _)
combineFill_forward(combined, words, i) ==
    IF i = Len(words) THEN combined
    ELSE LET buf == PutUint16(words[i + 1])
         IN  combineFill_forward([combined EXCEPT ![8 - 2 * i] = buf[2],
                                                  ![8 - (2 * i + 1)] = buf[1]],
                                 words, i + 1)

RECURSIVE combineFill(_, _, _)
combineFill(combined, words, i) ==
    IF i = Len(words) THEN combined
    ELSE LET buf == PutUint16(words[Len(words) - i])
         IN  combineFill([combined EXCEPT ![8 - 2 * i] = buf[2],
                                          ![8 - (2 * i + 1)] = buf[1]],
                         words, i + 1)

combineWords(words) == Uint64(combineFill(<<0, 0, 0, 0, 0, 0, 0, 0>>, words, 0))

---------------------------------------------------------------------------
(* The session's operations, as functions of the state and of what the     *)
(* environment does during the call                                        *)

\* the field getting back the first device, released or not
deviceValue_stale(h, openErr) == IF openErr = NoErr THEN Device(1) ELSE TypedNil

\* the interface value the field gets from the *i2c.Device i2c.Open returned:
\* on an error the pointer is nil, and the interface holding it is not
deviceValue(h, openErr) == IF openErr = NoErr THEN Device(h) ELSE TypedNil

\* startI2CConnection opening a device whether or not one is held
startI2CConnection_reopen(c, h, st) ==
    IF ~st.stat THEN [conn |-> c, err |-> ErrPathNotFound, opened |-> FALSE]
    ELSE [conn |-> deviceValue(h, st.open), err |-> st.open,
          opened |-> st.open = NoErr]

\* startI2CConnection; h is the device i2c.Open returns when it succeeds
startI2CConnection(c, h, st) ==
    IF ~isNil(c) THEN [conn |-> c, err |-> NoErr, opened |-> FALSE]
    ELSE IF ~st.stat THEN [conn |-> c, err |-> ErrPathNotFound, opened |-> FALSE]
    ELSE [conn |-> deviceValue(h, st.open), err |-> st.open,
          opened |-> st.open = NoErr]

getSerial(c, o) ==
    LET Out(r) ==
            IF r.err # NoErr
            THEN [serial |-> Zero64, err |-> "failed to read serial: " \o r.err,
                  ev |-> r.ev, panic |-> r.panic]
            ELSE [serial |-> combineWords(r.result), err |-> NoErr,
                  ev |-> r.ev, panic |-> r.panic]
    IN  Out(readWordsUint(c, GetSerialID, 3, o))

getFeatureSet(c, o) ==
    LET Out(r) ==
            IF r.err # NoErr
            THEN [featureSet |-> 0, err |-> "failed to get feature set: " \o r.err,
                  ev |-> r.ev, panic |-> r.panic]
            ELSE [featureSet |-> r.result[1], err |-> NoErr,
                  ev |-> r.ev, panic |-> r.panic]
    IN  Out(readWordsUint(c, GetFeatureSetVersion, 1, o))

\* Init accepting any feature set
featureSetExpected_any(featureSet) == TRUE

\* featureSet != ExpectedFeatureSet, negated
featureSetExpected(featureSet) == featureSet = ExpectedFeatureSet

\* Init leaving SerialID alone when getSerial fails
storedSerial_keep(sid, ser) == IF ser.err = NoErr THEN ser.serial ELSE sid

\* the SerialID Init stores after getSerial returned ser; sid is the one held
storedSerial(sid, ser) == IF ser.err = NoErr THEN ser.serial ELSE Zero64

\* Init going on to success when the feature set cannot be read
handshake_featureOptional(c, sid, o1, o2, o3) ==
    LET Out(id, e, t, p) == [SerialID |-> id, err |-> e, trace |-> t, panic |-> p]
        Steps(ser, sid1, fs, air) ==
            IF ser.panic THEN Out(sid, ErrPanic, ser.ev, TRUE)
            ELSE IF fs.err = NoErr /\ ~featureSetExpected(fs.featureSet)
            THEN Out(sid1, ErrSensorNotFound, ser.ev \o fs.ev, FALSE)
            ELSE Out(sid1, air.err, ser.ev \o fs.ev \o air.ev, FALSE)
        Stored(ser) ==
            Steps(ser, storedSerial(sid, ser), getFeatureSet(c, o2),
                  readWordsUint(c, InitAirQuality, 0, o3))
    IN  Stored(getSerial(c, o1))

\* Init asking for the feature set before the serial id
handshake_featureFirst(c, sid, o1, o2, o3) ==
    LET Out(id, e, t, p) == [SerialID |-> id, err |-> e, trace |-> t, panic |-> p]
        Steps(ser, sid1, fs, air) ==
            IF ser.panic THEN Out(sid, ErrPanic, ser.ev, TRUE)
            ELSE IF fs.panic THEN Out(sid1, ErrPanic, fs.ev \o ser.ev, TRUE)
            ELSE IF fs.err # NoErr
            THEN Out(sid1, ErrSensorNotFound, fs.ev \o ser.ev, FALSE)
            ELSE IF ~featureSetExpected(fs.featureSet)
            THEN Out(sid1, ErrSensorNotFound, fs.ev \o ser.ev, FALSE)
            ELSE IF air.panic
            THEN Out(sid1, ErrPanic, fs.ev \o ser.ev \o air.ev, TRUE)
            ELSE Out(sid1, air.err, fs.ev \o ser.ev \o air.ev, FALSE)
        Stored(ser) ==
            Steps(ser, storedSerial(sid, ser), getFeatureSet(c, o2),
                  readWordsUint(c, InitAirQuality, 0, o3))
    IN  Stored(getSerial(c, o1))

\* Init from getSerial on, on connection c with serial id sid: o1, o2 and o3
\* are what the transport does for the three commands
handshake(c, sid, o1, o2, o3) ==
    LET Out(id, e, t, p) == [SerialID |-> id, err |-> e, trace |-> t, panic |-> p]
        \* ser, fs and air are what getSerial, getFeatureSet and the
        \* initialize-air-quality command return, sid1 the serial id stored
        Steps(ser, sid1, fs, air) ==
            IF ser.panic THEN Out(sid, ErrPanic, ser.ev, TRUE)
            ELSE IF fs.panic THEN Out(sid1, ErrPanic, ser.ev \o fs.ev, TRUE)
            ELSE IF fs.err # NoErr
            THEN Out(sid1, ErrSensorNotFound, ser.ev \o fs.ev, FALSE)
            ELSE IF ~featureSetExpected(fs.featureSet)
            THEN Out(sid1, ErrSensorNotFound, ser.ev \o fs.ev, FALSE)
            ELSE IF air.panic
            THEN Out(sid1, ErrPanic, ser.ev \o fs.ev \o air.ev, TRUE)
            ELSE Out(sid1, air.err, ser.ev \o fs.ev \o air.ev, FALSE)
        Stored(ser) ==
            Steps(ser, storedSerial(sid, ser), getFeatureSet(c, o2),
                  readWordsUint(c, InitAirQuality, 0, o3))
    IN  Stored(getSerial(c, o1))

\* Init on a session with connection c and serial id sid
InitCall(c, sid, h, st, o1, o2, o3) ==
    LET Out(start, hs) ==
            IF start.err # NoErr
            THEN [conn |-> start.conn, SerialID |-> sid, err |-> start.err,
                  trace |-> <<>>, panic |-> FALSE, opened |-> FALSE]
            ELSE [conn |-> start.conn, SerialID |-> hs.SerialID, err |-> hs.err,
                  trace |-> hs.trace, panic |-> hs.panic, opened |-> start.opened]
        Started(start) == Out(start, handshake(start.conn, sid, o1, o2, o3))
    IN  Started(startI2CConnection(c, h, st))

\* the two words in the wrong order
wordPair_swapped(vals) == <<vals[2], vals[1]>>

\* the pair Measure and GetBaseline return from the decoded words
wordPair(vals) == <<vals[1], vals[2]>>

\* Measure and GetBaseline sending the command a second time after an error
readPair_retry(c, command, o) ==
    LET Out(r) ==
            IF r.err # NoErr
            THEN [ret |-> <<0, 0>>, err |-> r.err, trace |-> r.ev \o r.ev,
                  panic |-> r.panic]
            ELSE [ret |-> wordPair(r.result), err |-> NoErr, trace |-> r.ev,
                  panic |-> r.panic]
    IN  Out(readWordsUint(c, command, 2, o))

\* Measure (command MeasureAirQuality) and GetBaseline (command GetBaselineCmd)
readPair(c, command, o) ==
    LET Out(r) ==
            IF r.err # NoErr
            THEN [ret |-> <<0, 0>>, err |-> r.err, trace |-> r.ev, panic |-> r.panic]
            ELSE [ret |-> wordPair(r.result), err |-> NoErr, trace |-> r.ev,
                  panic |-> r.panic]
    IN  Out(readWordsUint(c, command, 2, o))

MeasureCall(c, o) == readPair(c, MeasureAirQuality, o)

GetBaselineCall(c, o) == readPair(c, GetBaselineCmd, o)

\* SetBaseline appending the word of TVOC before the word of eCO2
SetBaselineCall_swapped(c, eCO2, TVOC, o) ==
    LET buffer == PutUint16(SetBaselineCmd) \o packWordCrc(TVOC) \o packWordCrc(eCO2)
        Out(r) == [err |-> r.err, trace |-> r.ev, panic |-> r.panic]
    IN  Out(readWords(c, buffer, 0, o))

SetBaselineCall(c, eCO2, TVOC, o) ==
    LET buffer == PutUint16(SetBaselineCmd) \o packWordCrc(eCO2) \o packWordCrc(TVOC)
        Out(r) == [err |-> r.err, trace |-> r.ev, panic |-> r.panic]
    IN  Out(readWords(c, buffer, 0, o))

\* Close calling the transport's Close a second time when the first failed
CloseCall_again(c, e) ==
    IF isNil(c)
    THEN [conn |-> c, err |-> ErrAlreadyClosed, trace |-> <<>>, panic |-> FALSE]
    ELSE IF c = TypedNil
    THEN [conn |-> c, err |-> ErrPanic, trace |-> <<>>, panic |-> TRUE]
    ELSE [conn |-> Nil, err |-> e,
          trace |-> IF e = NoErr THEN <<CloseEv(c, e)>>
                    ELSE <<CloseEv(c, e), CloseEv(c, e)>>,
          panic |-> FALSE]

\* Close forgetting to release the handle
CloseCall_noRelease(c, e) ==
    IF isNil(c)
    THEN [conn |-> c, err |-> ErrAlreadyClosed, trace |-> <<>>, panic |-> FALSE]
    ELSE IF c = TypedNil
    THEN [conn |-> c, err |-> ErrPanic, trace |-> <<>>, panic |-> TRUE]
    ELSE [conn |-> c, err |-> e, trace |-> <<CloseEv(c, e)>>, panic |-> FALSE]

\* Close returning the transport's failure before it releases the handle
CloseCall_earlyReturn(c, e) ==
    IF isNil(c)
    THEN [conn |-> c, err |-> ErrAlreadyClosed, trace |-> <<>>, panic |-> FALSE]
    ELSE IF c = TypedNil
    THEN [conn |-> c, err |-> ErrPanic, trace |-> <<>>, panic |-> TRUE]
    ELSE [conn |-> IF e = NoErr THEN Nil ELSE c, err |-> e,
          trace |-> <<CloseEv(c, e)>>, panic |-> FALSE]

\* Close; e is the error the transport's Close returns
CloseCall(c, e) ==
    IF isNil(c)
    THEN [conn |-> c, err |-> ErrAlreadyClosed, trace |-> <<>>, panic |-> FALSE]
    ELSE IF c = TypedNil
    THEN [conn |-> c, err |-> ErrPanic, trace |-> <<>>, panic |-> TRUE]
    ELSE [conn |-> Nil, err |-> e, trace |-> <<CloseEv(c, e)>>,
          panic |-> FALSE]

---------------------------------------------------------------------------
(* The state machine: a caller invoking the exported methods one at a time *)

\* NewSensor
Init ==
    /\ conn = Nil
    /\ SerialID = Zero64
    /\ opens = 0
    /\ closedDevs = {}
    /\ lastOp = "none"
    /\ args = <<>>
    /\ connBefore = Nil
    /\ lastInit = "never"
    /\ err = NoErr
    /\ ret = <<>>
    /\ trace = <<>>
    /\ panicked = FALSE

\* no call is in progress and the caller has taken the last call's results
Idle == ~panicked /\ lastOp = "none"

InitDone(r) ==
    /\ conn' = r.conn
    /\ SerialID' = r.SerialID
    /\ opens' = IF r.opened THEN opens + 1 ELSE opens
    /\ closedDevs' = closedDevs
    /\ lastOp' = "Init"
    /\ args' = <<>>
    /\ connBefore' = conn
    /\ lastInit' = r.err
    /\ err' = r.err
    /\ ret' = <<>>
    /\ trace' = r.trace
    /\ panicked' = r.panic

\* The environment's choices that Init does not look at are not enumerated:
\* nothing follows a failed start, a write on a nil device or a rejected
\* feature set.
InitOp ==
    /\ Idle
    /\ \E st \in (IF isNil(conn) THEN StartOutcomes ELSE {NoStart}) :
          /\ (isNil(conn) /\ st.stat /\ st.open = NoErr) => opens < MaxOpens
          /\ LET Reached(start) == start.err = NoErr /\ start.conn.ptr # 0
                 Passed(fs) == fs.err = NoErr /\ featureSetExpected(fs.featureSet)
                 Calls(start) ==
                     \E o1 \in (IF Reached(start) THEN Outcomes(3) ELSE {NoOutcome}),
                        o2 \in (IF Reached(start) THEN Outcomes(1) ELSE {NoOutcome}) :
                       \E o3 \in (IF Reached(start) /\ Passed(getFeatureSet(start.conn, o2))
                                  THEN Outcomes(0) ELSE {NoOutcome}) :
                          InitDone(InitCall(conn, SerialID, opens + 1, st, o1, o2, o3))
             IN  Calls(startI2CConnection(conn, opens + 1, st))

\* The tests of the package assign a test double to the field of a new
\* session, before any method is called.
AssignMock ==
    /\ Idle
    /\ conn = Nil
    /\ opens = 0
    /\ lastInit = "never"
    /\ conn' = Device(opens + 1)
    /\ opens' = opens + 1
    /\ UNCHANGED <<SerialID, closedDevs, lastOp, args, connBefore, lastInit,
                   err, ret, trace, panicked>>

\* Measure refusing to use the connection unless the latest Init succeeded
MeasureOp_afterInit ==
    /\ Idle
    /\ \E o \in Outcomes(2) :
          LET Done(r) ==
                  /\ lastOp' = "Measure"
                  /\ args' = <<>>
                  /\ connBefore' = conn
                  /\ err' = r.err
                  /\ ret' = r.ret
                  /\ trace' = r.trace
                  /\ panicked' = r.panic
                  /\ UNCHANGED <<conn, SerialID, opens, closedDevs, lastInit>>
          IN  Done(MeasureCall(IF lastInit = NoErr THEN conn ELSE Nil, o))

MeasureOp ==
    /\ Idle
    /\ \E o \in Outcomes(2) :
          LET Done(r) ==
                  /\ lastOp' = "Measure"
                  /\ args' = <<>>
                  /\ connBefore' = conn
                  /\ err' = r.err
                  /\ ret' = r.ret
                  /\ trace' = r.trace
                  /\ panicked' = r.panic
                  /\ UNCHANGED <<conn, SerialID, opens, closedDevs, lastInit>>
          IN  Done(MeasureCall(conn, o))

GetBaselineOp ==
    /\ Idle
    /\ \E o \in Outcomes(2) :
          LET Done(r) ==
                  /\ lastOp' = "GetBaseline"
                  /\ args' = <<>>
                  /\ connBefore' = conn
                  /\ err' = r.err
                  /\ ret' = r.ret
                  /\ trace' = r.trace
                  /\ panicked' = r.panic
                  /\ UNCHANGED <<conn, SerialID, opens, closedDevs, lastInit>>
          IN  Done(GetBaselineCall(conn, o))

SetBaselineOp ==
    /\ Idle
    /\ \E eCO2 \in Words, TVOC \in Words, o \in Outcomes(0) :
          LET Done(r) ==
                  /\ lastOp' = "SetBaseline"
                  /\ args' = <<eCO2, TVOC>>
                  /\ connBefore' = conn
                  /\ err' = r.err
                  /\ ret' = <<>>
                  /\ trace' = r.trace
                  /\ panicked' = r.panic
                  /\ UNCHANGED <<conn, SerialID, opens, closedDevs, lastInit>>
          IN  Done(SetBaselineCall(conn, eCO2, TVOC, o))

\* Close resetting the serial id along with the connection
CloseOp_zeroSerial ==
    /\ Idle
    /\ \E e \in TransportErrs \cup {NoErr} :
          LET Done(r) ==
                  /\ conn' = r.conn
                  /\ closedDevs' = closedDevs \cup {ev.h.ptr : ev \in Range(r.trace)}
                  /\ lastOp' = "Close"
                  /\ args' = <<>>
                  /\ connBefore' = conn
                  /\ err' = r.err
                  /\ ret' = <<>>
                  /\ trace' = r.trace
                  /\ panicked' = r.panic
                  /\ SerialID' = Zero64
                  /\ UNCHANGED <<opens, lastInit>>
          IN  Done(CloseCall(conn, e))

CloseOp ==
    /\ Idle
    /\ \E e \in TransportErrs \cup {NoErr} :
          LET Done(r) ==
                  /\ conn' = r.conn
                  /\ closedDevs' = closedDevs \cup {ev.h.ptr : ev \in Range(r.trace)}
                  /\ lastOp' = "Close"
                  /\ args' = <<>>
                  /\ connBefore' = conn
                  /\ err' = r.err
                  /\ ret' = <<>>
                  /\ trace' = r.trace
                  /\ panicked' = r.panic
                  /\ UNCHANGED <<SerialID, opens, lastInit>>
          IN  Done(CloseCall(conn, e))

\* The caller takes the results of the call that returned and goes on to its
\* next call; a panic ends the program.
Return ==
    /\ ~panicked
    /\ lastOp # "none"
    /\ lastOp' = "none"
    /\ args' = <<>>
    /\ connBefore' = Nil
    /\ err' = NoErr
    /\ ret' = <<>>
    /\ trace' = <<>>
    /\ UNCHANGED <<conn, SerialID, opens, closedDevs, lastInit, panicked>>

Next ==
    AssignMock \/ InitOp \/ MeasureOp \/ GetBaselineOp \/ SetBaselineOp \/ CloseOp \/ Return

Spec == Init /\ [][Next]_vars

---------------------------------------------------------------------------
(* The word framing on its own, as TestPackWordCrc and TestReadWords use   *)
(* it: a word is packed, and the packed bytes are the reply a readWords    *)
(* call expecting one word reads from a test double.                       *)

FramingInit ==
    /\ conn = Device(1)
    /\ SerialID = Zero64
    /\ opens = 1
    /\ closedDevs = {}
    /\ lastOp = "none"
    /\ args \in {<<word>> : word \in 0..MaxUint16}
    /\ connBefore = conn
    /\ lastInit = "never"
    /\ err = NoErr
    /\ ret = <<>>
    /\ trace = <<>>
    /\ panicked = FALSE

PackWordCrcStep ==
    /\ lastOp = "none"
    /\ lastOp' = "packWordCrc"
    /\ ret' = packWordCrc(args[1])
    /\ UNCHANGED <<conn, SerialID, opens, closedDevs, args, connBefore, lastInit,
                   err, trace, panicked>>

\* readWords(command, 1), the Read filling in the bytes packed
ReadWordsStep ==
    /\ lastOp = "packWordCrc"
    /\ LET Done(r) ==
                /\ lastOp' = "readWords"
                /\ ret' = r.result
                /\ err' = r.err
                /\ trace' = r.ev
                /\ panicked' = r.panic
        IN  Done(readWordsUint(conn, GetFeatureSetVersion, 1,
                               [w |-> NoErr, r |-> NoErr, data |-> ret]))
    /\ UNCHANGED <<conn, SerialID, opens, closedDevs, args, connBefore, lastInit>>

FramingNext == PackWordCrcStep \/ ReadWordsStep

FramingSpec == FramingInit /\ [][FramingNext]_vars

---------------------------------------------------------------------------
(* The checksum on its own, as TestCrcGeneration uses it *)

\* the sequences of at most n elements of S
RECURSIVE SeqsUpTo(_, _)
SeqsUpTo(S, n) ==
    IF n = 0 THEN {<<>>}
    ELSE SeqsUpTo(S, n - 1)
         \cup {Append(q, x) : q \in {p \in SeqsUpTo(S, n - 1) : Len(p) = n - 1}, x \in S}

CrcInit ==
    /\ conn = Nil
    /\ SerialID = Zero64
    /\ opens = 0
    /\ closedDevs = {}
    /\ lastOp = "none"
    /\ args \in {<<b>> : b \in 0..255} \cup SeqsUpTo(CrcBytes, MaxCrcLen) \cup CrcVectors
    /\ connBefore = Nil
    /\ lastInit = "never"
    /\ err = NoErr
    /\ ret = <<>>
    /\ trace = <<>>
    /\ panicked = FALSE

GenerateCrcStep ==
    /\ lastOp = "none"
    /\ lastOp' = "generateCrc"
    /\ ret' = <<generateCrc(args)>>
    /\ UNCHANGED <<conn, SerialID, opens, closedDevs, args, connBefore, lastInit,
                   err, trace, panicked>>

CrcNext == GenerateCrcStep

CrcSpec == CrcInit /\ [][CrcNext]_vars

---------------------------------------------------------------------------
(* combineWords on its own, as TestCombineWords uses it: on lists of at     *)
(* least one word and of at most as many words as the buffer holds          *)

CombineInit ==
    /\ conn = Nil
    /\ SerialID = Zero64
    /\ opens = 0
    /\ closedDevs = {}
    /\ lastOp = "none"
    /\ args \in {words \in SeqsUpTo(CombineWordSet, CombinedBytes \div 2) :
                    words # <<>>}
    /\ connBefore = Nil
    /\ lastInit = "never"
    /\ err = NoErr
    /\ ret = <<>>
    /\ trace = <<>>
    /\ panicked = FALSE

CombineWordsStep ==
    /\ lastOp = "none"
    /\ lastOp' = "combineWords"
    /\ ret' = combineWords(args)
    /\ UNCHANGED <<conn, SerialID, opens, closedDevs, args, connBefore, lastInit,
                   err, trace, panicked>>

CombineNext == CombineWordsStep

CombineSpec == CombineInit /\ [][CombineNext]_vars

---------------------------------------------------------------------------
(* What a call did, read off the transport calls it made *)

ReadingOps == {"Measure", "GetBaseline", "SetBaseline"}

IsWrite(ev, bytes) == ev.op = "write" /\ ev.data = bytes

\* the third byte of the 3-byte group g is the checksum of its first two
Checksummed(g) == g[3] = generateCrc(<<g[1], g[2]>>)

\* the 3-byte groups of a buffer
Groups(buf) == {SubSeq(buf, 3 * k + 1, 3 * k + 3) : k \in 0..((Len(buf) \div 3) - 1)}

\* the word a 3-byte group carries
GroupWord(buf, k) == buf[3 * k + 1] * 256 + buf[3 * k + 2]

\* command written at position i of trace t was accepted and, when n > 0 words
\* are expected, answered by a read of n correctly checksummed groups
CommandOK(t, i, n) ==
    /\ t[i].err = NoErr
    /\ n > 0 => /\ i + 1 <= Len(t)
                /\ t[i + 1].op = "read"
                /\ t[i + 1].err = NoErr
                /\ \A g \in Groups(t[i + 1].data) : Checksummed(g)

\* the identify command 0x3682 succeeded in the call
IdentifyOK(t) ==
    \E i \in DOMAIN t : IsWrite(t[i], <<54, 130>>) /\ CommandOK(t, i, 3)

\* the feature-version command 0x202F was written in the call
FeatureWritten(t) == \E i \in DOMAIN t : IsWrite(t[i], <<32, 47>>)

\* the feature-version command succeeded and its reply word is 0x0020
FeatureOK(t) ==
    \E i \in DOMAIN t :
        /\ IsWrite(t[i], <<32, 47>>)
        /\ CommandOK(t, i, 1)
        /\ GroupWord(t[i + 1].data, 0) = 32

\* the initialize-air-quality command 0x2003 was written in the call
AirWritten(t) == \E i \in DOMAIN t : IsWrite(t[i], <<32, 3>>)

\* the initialize-air-quality write succeeded
AirOK(t) == \E i \in DOMAIN t : IsWrite(t[i], <<32, 3>>) /\ t[i].err = NoErr

\* the 3-byte group at position k (from 0) of a buffer
Group(buf, k) == SubSeq(buf, 3 * k + 1, 3 * k + 3)

\* a group of the buffer fails its checksum
HasBadGroup(buf) == \E g \in Groups(buf) : ~Checksummed(g)

\* the position of the first group of the buffer that fails its checksum
FirstBad(buf) ==
    CHOOSE k \in 0..((Len(buf) \div 3) - 1) :
        /\ ~Checksummed(Group(buf, k))
        /\ \A j \in 0..(k - 1) : Checksummed(Group(buf, j))

\* the checksum-mismatch error for the group g: the byte received, then the
\* checksum of the group's first two bytes, in hexadecimal
MismatchOf(g) == ErrCrcMismatch(g[3], generateCrc(<<g[1], g[2]>>))

\* the reply size the session passes to readWords with the command bytes
ReplySizeOf(command) ==
    CASE command = <<54, 130>> -> 3
      [] command = <<32, 47>> -> 1
      [] command \in {<<32, 8>>, <<32, 21>>} -> 2
      [] OTHER -> 0

\* the positions of the transport calls of kind op in a trace
CallsOf(t, op) == {i \in DOMAIN t : t[i].op = op}

\* the byte strings a call wrote, in the order of its Writes
RECURSIVE Written(_)
Written(t) ==
    IF t = <<>> THEN <<>>
    ELSE IF Head(t).op = "write" THEN <<Head(t).data>> \o Written(Tail(t))
    ELSE Written(Tail(t))

\* Init returned an error of startI2CConnection
OpenFailed == lastOp = "Init" /\ err \in {ErrPathNotFound} \cup OpenErrs

---------------------------------------------------------------------------
(* Claims *)

\* C1: a Measure, GetBaseline or SetBaseline call on a session whose
\* connection field is nil returns the not-connected error and calls neither
\* Write nor Read (nor anything else) on a transport.
C1_NilConnectionNotConnected ==
    [][(conn = Nil /\ lastOp' \in ReadingOps)
        => (err' = ErrNotConnected /\ trace' = <<>> /\ ~panicked')]_vars

\* a reading call returned not-connected on a session that was opened and
\* then closed
C1_Witness ==
    /\ lastOp \in ReadingOps
    /\ conn = Nil
    /\ opens = 1
    /\ err = ErrNotConnected

\* C2 as stated: Close with no handle returns already-closed; Close with a
\* handle calls the transport's Close and releases it; and once a Close has
\* released a handle, every later Measure, GetBaseline and SetBaseline
\* returns not-connected and every later Close already-closed.
C2_Original ==
    [][/\ (conn = Nil /\ lastOp' = "Close") => err' = ErrAlreadyClosed
       /\ (conn \in Handles /\ lastOp' = "Close")
            => (trace' = <<CloseEv(conn, err')>> /\ conn' = Nil)
       /\ (closedDevs # {} /\ ~panicked')
            => /\ lastOp' \in ReadingOps => err' = ErrNotConnected
               /\ lastOp' = "Close" => err' = ErrAlreadyClosed]_vars

\* C2 amended: Close with a nil connection returns already-closed and calls
\* nothing; Close with an open device calls that device's Close once and
\* leaves the connection nil; and from a nil connection, so after a Close for
\* as long as no Init is called, Measure, GetBaseline and SetBaseline return
\* not-connected, Close returns already-closed, and the connection stays nil.
C2_CloseThenNotConnected ==
    [][/\ (conn = Nil /\ lastOp' = "Close")
            => (err' = ErrAlreadyClosed /\ trace' = <<>> /\ conn' = Nil)
       /\ (conn \in Handles /\ lastOp' = "Close")
            => (trace' = <<CloseEv(conn, err')>> /\ conn' = Nil)
       /\ (conn = Nil /\ lastOp' \in ReadingOps)
            => (err' = ErrNotConnected /\ conn' = Nil)]_vars

\* a second Close returned already-closed after the first released a device
C2_Witness ==
    /\ lastOp = "Close"
    /\ closedDevs = {1}
    /\ conn = Nil
    /\ err = ErrAlreadyClosed

\* C3: when Close is called with an open device and the transport's Close
\* returns an error, Close returns that error and the connection is nil
\* afterwards.
C3_CloseFailureReleases ==
    [][(conn \in Handles /\ lastOp' = "Close" /\ Len(trace') = 1
        /\ trace'[1].err # NoErr)
        => (err' = trace'[1].err /\ conn' = Nil)]_vars

\* Close returned the transport's error and the connection is nil
C3_Witness ==
    /\ lastOp = "Close"
    /\ trace = <<CloseEv(Device(1), "EIO")>>
    /\ err = "EIO"
    /\ conn = Nil

\* C4: when Init fails in opening the transport, because the path is missing
\* or because i2c.Open returns an error, the connection is nil afterwards.
C4_OpenFailureLeavesNil == OpenFailed => conn = Nil

\* C5: when an Init call wrote the feature-version command and that command
\* failed (write error, read error, checksum mismatch) or its reply word is
\* not 0x0020, Init returns sensor-not-found and the initialize-air-quality
\* command is not written in the call.
C5_FeatureFailureAborts ==
    (lastOp = "Init" /\ FeatureWritten(trace) /\ ~FeatureOK(trace))
        => (err = ErrSensorNotFound /\ ~AirWritten(trace))

\* Init returned sensor-not-found on a correctly checksummed feature word
\* 0x0102
C5_Witness ==
    /\ lastOp = "Init"
    /\ err = ErrSensorNotFound
    /\ \E i \in DOMAIN trace :
          /\ IsWrite(trace[i], <<32, 47>>)
          /\ CommandOK(trace, i, 1)
          /\ GroupWord(trace[i + 1].data, 0) = 258

\* C6: whenever Init returns an error after startI2CConnection succeeded, the
\* serial id is 0 afterwards.
C6_FailedInitZeroesSerial ==
    (lastOp = "Init" /\ err # NoErr /\ ~OpenFailed /\ ~panicked)
        => SerialID = Zero64

\* C7: after a call that returns an error, the serial id is the one held
\* before the call or 0.
C7_SerialKeptOrZeroedOnError ==
    [][(lastOp' # "none" /\ err' # NoErr /\ ~panicked')
        => SerialID' \in {SerialID, Zero64}]_vars

\* C8: after an Init call that wrote the identify command: if identify
\* failed, the serial id is 0, the feature-version command was still written,
\* and Init returned success when the feature word is 0x0020 and the
\* initialize-air-quality write succeeded; if identify succeeded, the serial
\* id is w1 * 2^32 + w2 * 2^16 + w3 for its reply words w1, w2, w3.
C8_IdentifyNotFatal ==
    (lastOp = "Init" /\ trace # <<>>) =>
        IF IdentifyOK(trace)
        THEN SerialID = <<0, GroupWord(trace[2].data, 0),
                          GroupWord(trace[2].data, 1), GroupWord(trace[2].data, 2)>>
        ELSE /\ SerialID = Zero64
             /\ FeatureWritten(trace)
             /\ (FeatureOK(trace) /\ AirOK(trace)) => err = NoErr

\* Init returned success with serial id 0 after the identify write failed
C8_Witness ==
    /\ lastOp = "Init"
    /\ err = NoErr
    /\ SerialID = Zero64
    /\ trace[1].err # NoErr
    /\ opens = 1
    /\ conn = Device(1)

\* C9 as stated: Init returns success only if identify, feature-version and
\* initialize-air-quality all succeeded in the call.
C9_Original ==
    (lastOp = "Init" /\ err = NoErr)
        => (IdentifyOK(trace) /\ FeatureOK(trace) /\ AirOK(trace))

\* C9 amended: Init returns success only if, in the call, the feature-version
\* command succeeded with reply word 0x0020 and the initialize-air-quality
\* write succeeded; the identify command may have failed.
C9_SuccessNeedsFeatureAndAir ==
    (lastOp = "Init" /\ err = NoErr) => (FeatureOK(trace) /\ AirOK(trace))

\* Init returned success although the identify reply failed its checksum
C9_Witness ==
    /\ lastOp = "Init"
    /\ err = NoErr
    /\ Len(trace) = 5
    /\ trace[2].err = NoErr
    /\ ~IdentifyOK(trace)

\* C10: when a Measure or GetBaseline call on an open device met no transport
\* error and no wrongly checksummed group, it made exactly one Write, of the
\* 2 bytes 0x20 0x08 (Measure) or 0x20 0x15 (GetBaseline), then exactly one
\* Read of 6 bytes, and returned the first and the second word read, in that
\* order, with no error.
C10_ReadPair ==
    (/\ lastOp \in {"Measure", "GetBaseline"}
     /\ conn \in Handles
     /\ \A i \in DOMAIN trace :
           /\ trace[i].err = NoErr
           /\ \A g \in Groups(trace[i].data) : trace[i].op = "read" => Checksummed(g))
    => /\ Len(trace) = 2
       /\ trace[1] = WriteEv(conn, IF lastOp = "Measure" THEN <<32, 8>> ELSE <<32, 21>>,
                             NoErr)
       /\ trace[2].op = "read"
       /\ trace[2].n = 6
       /\ Len(trace[2].data) = 6
       /\ ret = <<GroupWord(trace[2].data, 0), GroupWord(trace[2].data, 1)>>
       /\ err = NoErr

\* Measure returned eCO2 = 0x0020 and TVOC = 0x0102 from the reply
\* 00 20 07 01 02 17
C10_Witness ==
    /\ lastOp = "Measure"
    /\ err = NoErr
    /\ trace[2].data = <<0, 32, 7, 1, 2, 23>>
    /\ ret = <<32, 258>>

\* C11: for every successful Read a call made (of 1, 2 or 3 groups) whose
\* buffer holds a group failing its checksum, in any position, readWords on
\* that buffer returns no words and the checksum-mismatch error of the first
\* such group; when the call is Measure or GetBaseline, it returned that
\* error and the words 0, 0.
C11_CrcMismatchNoWords ==
    \A i \in DOMAIN trace :
        (trace[i].op = "read" /\ trace[i].err = NoErr /\ HasBadGroup(trace[i].data))
        => LET buf == trace[i].data
               r == readWords(trace[i].h, trace[i - 1].data, Len(buf) \div 3,
                              [w |-> NoErr, r |-> NoErr, data |-> buf])
               mismatch == MismatchOf(Group(buf, FirstBad(buf)))
           IN  /\ r.result = <<>>
               /\ r.err = mismatch
               /\ lastOp \in {"Measure", "GetBaseline"}
                    => (err = mismatch /\ ret = <<0, 0>>)

\* GetBaseline returned no words and the mismatch error of the second group
\* on the reply 00 20 07 03 04 50, whose first group is a framed word
C11_Witness ==
    /\ lastOp = "GetBaseline"
    /\ Len(trace) = 2
    /\ trace[2].data = <<0, 32, 7, 3, 4, 80>>
    /\ err = "crc mismatch 50, 68"
    /\ ret = <<0, 0>>

\* C12: a SetBaseline(eCO2, TVOC) call on an open device made exactly one
\* transport call, a Write on that device of the 8 bytes 0x20, 0x1E, then the
\* high byte, the low byte and the checksum of eCO2, then those of TVOC; it
\* made no Read, and it returned what that Write returned.
C12_SetBaselineWrite ==
    (lastOp = "SetBaseline" /\ connBefore \in Handles)
    => LET hi(w) == w \div 256
           lo(w) == w % 256
           sum(w) == generateCrc(<<hi(w), lo(w)>>)
       IN  /\ Len(trace) = 1
           /\ trace[1].op = "write"
           /\ trace[1].h = connBefore
           /\ Len(trace[1].data) = 8
           /\ trace[1].data = <<32, 30, hi(args[1]), lo(args[1]), sum(args[1]),
                                hi(args[2]), lo(args[2]), sum(args[2])>>
           /\ err = trace[1].err

\* SetBaseline(0x0102, 0x0304) wrote 20 1E 01 02 17 03 04 68 and returned
\* no error
C12_Witness ==
    /\ lastOp = "SetBaseline"
    /\ args = <<258, 772>>
    /\ trace = <<WriteEv(Device(1), <<32, 30, 1, 2, 23, 3, 4, 104>>, NoErr)>>
    /\ err = NoErr

\* SetBaseline returned the error of its Write
C12_WitnessWriteFails ==
    /\ lastOp = "SetBaseline"
    /\ connBefore \in Handles
    /\ Len(trace) = 1
    /\ trace[1].err = "EIO"
    /\ err = "EIO"

\* C13: an Init call made while the connection is an open device opens no
\* device and returns no error of the open step: it goes on to write the
\* identify command to that device, and whatever it returns, the connection
\* afterwards is the device held before.
C13_InitKeepsHandle ==
    [][(conn \in Handles /\ lastOp' = "Init")
        => /\ conn' = conn
           /\ opens' = opens
           /\ err' \notin {ErrPathNotFound} \cup OpenErrs
           /\ trace' # <<>>
           /\ trace'[1].op = "write"
           /\ trace'[1].data = <<54, 130>>
           /\ \A i \in DOMAIN trace' : trace'[i].h = conn]_vars

\* a second Init on the device the first one opened failed in its handshake
\* and left that device as the connection
C13_Witness ==
    /\ lastOp = "Init"
    /\ connBefore = Device(1)
    /\ conn = Device(1)
    /\ opens = 1
    /\ err = ErrSensorNotFound

\* a second Init on the device the first one opened succeeded
C13_WitnessSuccess ==
    /\ lastOp = "Init"
    /\ connBefore = Device(1)
    /\ conn = Device(1)
    /\ opens = 1
    /\ err = NoErr

\* C14: a Measure call made while the connection is an open device, whatever
\* the latest Init returned, wrote the command 0x20 0x08 to that device; when
\* the Write failed it returned the Write's error; otherwise it read 6 bytes
\* from the device and returned the Read's error, or the mismatch error of
\* the first group failing its checksum, or the two words read and no error.
C14_MeasureWithoutInit ==
    (lastOp = "Measure" /\ connBefore \in Handles)
    => /\ trace # <<>>
       /\ trace[1] = WriteEv(connBefore, <<32, 8>>, trace[1].err)
       /\ IF trace[1].err # NoErr
          THEN Len(trace) = 1 /\ err = trace[1].err /\ ret = <<0, 0>>
          ELSE /\ Len(trace) = 2
               /\ trace[2].op = "read"
               /\ trace[2].h = connBefore
               /\ trace[2].n = 6
               /\ IF trace[2].err # NoErr
                  THEN err = trace[2].err /\ ret = <<0, 0>>
                  ELSE IF HasBadGroup(trace[2].data)
                  THEN /\ err = MismatchOf(Group(trace[2].data, FirstBad(trace[2].data)))
                       /\ ret = <<0, 0>>
                  ELSE /\ err = NoErr
                       /\ ret = <<GroupWord(trace[2].data, 0), GroupWord(trace[2].data, 1)>>

\* Measure returned the words read although the latest Init had failed in
\* its handshake with sensor-not-found
C14_Witness ==
    /\ lastOp = "Measure"
    /\ lastInit = ErrSensorNotFound
    /\ connBefore = Device(1)
    /\ err = NoErr
    /\ ret = <<32, 258>>

\* Measure returned the words read after the initialize-air-quality write of
\* the latest Init had failed
C14_WitnessAirFailed ==
    /\ lastOp = "Measure"
    /\ lastInit = "EIO"
    /\ connBefore = Device(1)
    /\ err = NoErr
    /\ ret = <<258, 32>>

\* Measure returned the words read on a session no Init was ever called on
C14_WitnessNeverInit ==
    /\ lastOp = "Measure"
    /\ lastInit = "never"
    /\ connBefore = Device(1)
    /\ err = NoErr
    /\ ret = <<32, 258>>

\* Measure returned the same words after a successful Init
C14_WitnessInitialized ==
    /\ lastOp = "Measure"
    /\ lastInit = NoErr
    /\ connBefore = Device(1)
    /\ err = NoErr
    /\ ret = <<32, 258>>

\* C15: a Measure, GetBaseline, SetBaseline or Close call leaves the serial
\* id as it was before the call, whether it returns an error or not.
C15_SerialOnlySetByInit ==
    [][lastOp' \in ReadingOps \cup {"Close"} => SerialID' = SerialID]_vars

\* a Close that returned the transport's error left the serial id
\* 0x002001020020 read by Init
C15_Witness ==
    /\ lastOp = "Close"
    /\ err = "EIO"
    /\ SerialID = <<0, 32, 258, 32>>

\* a Measure that succeeded left the serial id read by Init
C15_WitnessMeasure ==
    /\ lastOp = "Measure"
    /\ err = NoErr
    /\ SerialID = <<0, 32, 258, 32>>

\* a SetBaseline on a closed session left the serial id read by Init
C15_WitnessSetBaseline ==
    /\ lastOp = "SetBaseline"
    /\ err = ErrNotConnected
    /\ SerialID = <<0, 32, 258, 32>>

\* C16 as stated: once a Close has released a device, the connection is
\* never an open device again.
C16_Original == closedDevs # {} => conn \notin Handles

\* C16 amended: once a Close has released a device, Measure, GetBaseline,
\* SetBaseline and Close never make the connection an open device; only an
\* Init called with a nil connection does, when its open step succeeds, and
\* the device is then a newly opened one, not one that was released.
C16_OnlyInitReopens ==
    [][(closedDevs # {} /\ conn' \in Handles /\ conn' # conn)
        => /\ lastOp' = "Init"
           /\ conn = Nil
           /\ err' \notin {ErrPathNotFound} \cup OpenErrs
           /\ opens' = opens + 1
           /\ conn' = Device(opens')
           /\ conn'.ptr \notin closedDevs]_vars

\* after device 1 was released by Close, Init opened device 2
C16_Witness ==
    /\ lastOp = "Init"
    /\ closedDevs = {1}
    /\ connBefore = Nil
    /\ conn = Device(2)
    /\ opens = 2

\* C17: for every Write of a call that returned an error e: the call made
\* no Read after it (what follows, if anything, is the Write of Init's next
\* command); readWords with that Write failing returns e, no words and makes
\* no further transport call, for each reply count from 0 to 3; and a
\* Measure, GetBaseline or SetBaseline call, or an Init call whose
\* initialize-air-quality Write it is, returned e itself.
C17_WriteFailureAborts ==
    \A i \in DOMAIN trace :
        (trace[i].op = "write" /\ trace[i].err # NoErr)
        => /\ i < Len(trace) => (lastOp = "Init" /\ trace[i + 1].op = "write")
           /\ \A n \in 0..3 :
                 readWords(trace[i].h, trace[i].data, n,
                           [w |-> trace[i].err, r |-> NoErr, data |-> <<>>])
                 = [result |-> <<>>, err |-> trace[i].err, ev |-> <<trace[i]>>,
                    panic |-> FALSE]
           /\ lastOp \in ReadingOps
                => (Len(trace) = 1 /\ err = trace[i].err /\ ret \in {<<>>, <<0, 0>>})
           /\ (lastOp = "Init" /\ trace[i].data = <<32, 3>>)
                => (i = Len(trace) /\ err = trace[i].err)

\* GetBaseline returned the error of its Write and made no Read
C17_Witness ==
    /\ lastOp = "GetBaseline"
    /\ trace = <<WriteEv(Device(1), <<32, 21>>, "EREMOTEIO")>>
    /\ err = "EREMOTEIO"
    /\ ret = <<0, 0>>

\* Init went from the failed Write of the identify command to the Write of
\* the feature-version command without a Read between them
C17_WitnessInit ==
    /\ lastOp = "Init"
    /\ Len(trace) >= 2
    /\ trace[1] = WriteEv(Device(1), <<54, 130>>, "EIO")
    /\ trace[2].op = "write"
    /\ trace[2].data = <<32, 47>>

\* C18: for every Write of a call that returned no error, N being the reply
\* size of its command.  When N = 0 it is the call's last transport call,
\* readWords returns no words and no error, and so does the SetBaseline or
\* Init call.  When N > 0 exactly one Read follows it, on the same device
\* and into 3 * N bytes; when that Read returned an error e, readWords
\* returns e and no words, and so does a Measure or GetBaseline call.
C18_ReadAfterWrite ==
    \A i \in DOMAIN trace :
        (trace[i].op = "write" /\ trace[i].err = NoErr)
        => LET N == ReplySizeOf(trace[i].data)
               Ok(d) == [w |-> NoErr, r |-> NoErr, data |-> d]
           IN  IF N = 0
               THEN /\ i = Len(trace)
                    /\ readWords(trace[i].h, trace[i].data, 0, Ok(<<>>))
                       = [result |-> <<>>, err |-> NoErr, ev |-> <<trace[i]>>,
                          panic |-> FALSE]
                    /\ err = NoErr
                    /\ ret = <<>>
               ELSE /\ i < Len(trace)
                    /\ trace[i + 1].op = "read"
                    /\ trace[i + 1].h = trace[i].h
                    /\ trace[i + 1].n = 3 * N
                    /\ i + 1 < Len(trace) => trace[i + 2].op = "write"
                    /\ trace[i + 1].err = NoErr => Len(trace[i + 1].data) = 3 * N
                    /\ trace[i + 1].err # NoErr
                         => /\ readWords(trace[i].h, trace[i].data, N,
                                         [w |-> NoErr, r |-> trace[i + 1].err,
                                          data |-> <<>>])
                               = [result |-> <<>>, err |-> trace[i + 1].err,
                                  ev |-> <<trace[i], trace[i + 1]>>, panic |-> FALSE]
                            /\ lastOp \in ReadingOps
                                 => (err = trace[i + 1].err /\ ret = <<0, 0>>)

\* Measure returned the error of its Read of 6 bytes
C18_Witness ==
    /\ lastOp = "Measure"
    /\ trace = <<WriteEv(Device(1), <<32, 8>>, NoErr),
                 ReadEv(Device(1), 6, <<>>, "EREMOTEIO")>>
    /\ err = "EREMOTEIO"
    /\ ret = <<0, 0>>

\* Init ended, with no error, on the Write of the initialize-air-quality
\* command, after Reads of 9 and of 3 bytes
C18_WitnessNoReply ==
    /\ lastOp = "Init"
    /\ err = NoErr
    /\ Len(trace) = 5
    /\ trace[2].n = 9
    /\ trace[4].n = 3
    /\ trace[5] = WriteEv(Device(1), <<32, 3>>, NoErr)

\* C19: whatever the transport calls returned, a Measure, GetBaseline or
\* SetBaseline call made at most one Write and at most one Read, and an Init
\* call made at most three Writes and at most two Reads, no two of its
\* Writes carrying the same command.
C19_NoRetry ==
    /\ lastOp \in ReadingOps
         => /\ Cardinality(CallsOf(trace, "write")) <= 1
            /\ Cardinality(CallsOf(trace, "read")) <= 1
    /\ lastOp = "Init"
         => /\ Cardinality(CallsOf(trace, "write")) <= 3
            /\ Cardinality(CallsOf(trace, "read")) <= 2
            /\ \A i, j \in CallsOf(trace, "write") :
                  trace[i].data = trace[j].data => i = j

\* Measure returned after one failed Write
C19_Witness ==
    /\ lastOp = "Measure"
    /\ err = "EIO"
    /\ Len(trace) = 1
    /\ trace[1].op = "write"
    /\ trace[1].err = "EIO"

\* Init returned after the identify Write failed, the feature-version Read
\* failed, and nothing else was called
C19_WitnessInit ==
    /\ lastOp = "Init"
    /\ err = ErrSensorNotFound
    /\ Len(trace) = 3
    /\ trace[1].err = "EIO"
    /\ trace[3].op = "read"
    /\ trace[3].err = "EIO"

\* Init returned after three Writes, the last one failing, and two Reads
C19_WitnessInitMost ==
    /\ lastOp = "Init"
    /\ err = "EIO"
    /\ Cardinality(CallsOf(trace, "write")) = 3
    /\ Cardinality(CallsOf(trace, "read")) = 2

\* C20: an Init call that leaves an open device as the connection wrote
\* 0x3682 first and 0x202F second, and wrote 0x2003 third, and last, exactly
\* when the feature-version command succeeded with reply word 0x0020; every
\* Read it made follows the Write of 0x3682, into 9 bytes, or the Write of
\* 0x202F, into 3 bytes; and when the Write of 0x2003 returned an error,
\* Init returned that error.
C20_InitOrder ==
    (lastOp = "Init" /\ conn \in Handles)
    => /\ Written(trace) = IF FeatureOK(trace)
                           THEN <<<<54, 130>>, <<32, 47>>, <<32, 3>>>>
                           ELSE <<<<54, 130>>, <<32, 47>>>>
       /\ trace[1].op = "write"
       /\ \A i \in DOMAIN trace :
             /\ trace[i].op \in {"write", "read"}
             /\ trace[i].h = conn
             /\ trace[i].op = "read"
                  => /\ trace[i - 1].op = "write"
                     /\ trace[i - 1].err = NoErr
                     /\ \/ trace[i - 1].data = <<54, 130>> /\ trace[i].n = 9
                        \/ trace[i - 1].data = <<32, 47>> /\ trace[i].n = 3
             /\ (trace[i].op = "write" /\ trace[i].err = NoErr
                 /\ trace[i].data # <<32, 3>>)
                  => (i < Len(trace) /\ trace[i + 1].op = "read")
             /\ IsWrite(trace[i], <<32, 3>>)
                  => (i = Len(trace) /\ err = trace[i].err)

\* Init wrote the three commands in order, read 9 and 3 bytes, and returned
\* the error of the initialize-air-quality Write
C20_Witness ==
    /\ lastOp = "Init"
    /\ conn = Device(1)
    /\ Len(trace) = 5
    /\ Written(trace) = <<<<54, 130>>, <<32, 47>>, <<32, 3>>>>
    /\ trace[2].n = 9
    /\ trace[4].n = 3
    /\ trace[5].err = "EREMOTEIO"
    /\ err = "EREMOTEIO"

\* C21: every transport call a method makes is on a device whose Close had
\* not been called when the method was invoked, and within one method call
\* no transport call follows a Close of the same device: Close is called at
\* most once on a device and no Write or Read on it comes after.
C21_NoCallAfterClose ==
    [][\A i \in DOMAIN trace' :
          /\ trace'[i].h.ptr \notin closedDevs
          /\ \A j \in 1..(i - 1) :
                trace'[j].op = "close" => trace'[j].h # trace'[i].h]_vars

\* after the Close of device 1, a GetBaseline wrote to and read from device 2
C21_Witness ==
    /\ lastOp = "GetBaseline"
    /\ closedDevs = {1}
    /\ Len(trace) = 2
    /\ trace[1].h = Device(2)
    /\ trace[2].h = Device(2)
    /\ err = NoErr

\* both devices were closed, each by one Close call
C21_WitnessBothClosed ==
    /\ lastOp = "Close"
    /\ closedDevs = {1, 2}
    /\ trace = <<CloseEv(Device(2), NoErr)>>

\* C22: for every 16-bit word w, packWordCrc(w) is the 3 bytes: high byte of
\* w, low byte of w, checksum of those two bytes (12 34 37 for 0x1234,
\* 00 00 81 for 0); and readWords expecting 1 word, reading exactly those 3
\* bytes, returns the list of the one word w and no error.
C22_PackReadRoundTrip ==
    /\ lastOp = "packWordCrc"
         => /\ ret = <<args[1] \div 256, args[1] % 256,
                       generateCrc(<<args[1] \div 256, args[1] % 256>>)>>
            /\ args = <<4660>> => ret = <<18, 52, 55>>
            /\ args = <<0>> => ret = <<0, 0, 129>>
    /\ lastOp = "readWords"
         => /\ Len(trace) = 2
            /\ trace[2].op = "read"
            /\ trace[2].n = 3
            /\ trace[2].data = packWordCrc(args[1])
            /\ ret = args
            /\ err = NoErr

\* the word 0x1234 was packed into 12 34 37 and read back as 0x1234
C22_Witness ==
    /\ lastOp = "readWords"
    /\ args = <<4660>>
    /\ trace[2].data = <<18, 52, 55>>
    /\ ret = <<4660>>
    /\ err = NoErr

\* the word 0xFFFF was packed
C22_WitnessLargest ==
    /\ lastOp = "packWordCrc"
    /\ args = <<65535>>
    /\ ret = <<255, 255, 172>>

\* the 8 bits of a byte, the most significant first, and the byte of 8 bits
BitsOf(b) ==
    <<(b \div 128) % 2, (b \div 64) % 2, (b \div 32) % 2, (b \div 16) % 2,
      (b \div 8) % 2, (b \div 4) % 2, (b \div 2) % 2, b % 2>>

ByteOf(bits) ==
    128 * bits[1] + 64 * bits[2] + 32 * bits[3] + 16 * bits[4]
    + 8 * bits[5] + 4 * bits[6] + 2 * bits[7] + bits[8]

AddBits(x, y) ==
    <<(x[1] + y[1]) % 2, (x[2] + y[2]) % 2, (x[3] + y[3]) % 2, (x[4] + y[4]) % 2,
      (x[5] + y[5]) % 2, (x[6] + y[6]) % 2, (x[7] + y[7]) % 2, (x[8] + y[8]) % 2>>

\* the register shifted by one bit towards its most significant end
ShiftBits(reg) == <<reg[2], reg[3], reg[4], reg[5], reg[6], reg[7], reg[8], 0>>

\* the CRC register after the bits k to 8 of one message byte: for each
\* bit, the bit leaving the register, added to the message bit, decides
\* whether the polynomial is added to the shifted register
RECURSIVE CrcBits(_, _, _, _)
CrcBits(reg, bits, k, poly) ==
    IF k > 8 THEN reg
    ELSE IF (reg[1] + bits[k]) % 2 = 1
    THEN CrcBits(AddBits(ShiftBits(reg), poly), bits, k + 1, poly)
    ELSE CrcBits(ShiftBits(reg), bits, k + 1, poly)

\* the CRC register after the message bytes, in the order they are sent
RECURSIVE CrcRegister(_, _, _)
CrcRegister(reg, data, poly) ==
    IF data = <<>> THEN reg
    ELSE CrcRegister(CrcBits(reg, BitsOf(Head(data)), 1, poly), Tail(data), poly)

\* CRC-8 with polynomial 0x31, initial value 0xFF, no reflection and
\* XOR-out 0x00
Crc8Definition(data) ==
    ByteOf(AddBits(CrcRegister(BitsOf(255), data, BitsOf(49)), BitsOf(0)))

\* C23: the checksum of every byte sequence, the empty one included, is its
\* CRC-8 with polynomial 0x31, initial value 0xFF, no reflection and XOR-out
\* 0x00; it is 0x58 for 31, 0xCB for 31 32 33 34, 0x17 for 01 02 and 0xF7
\* for the ASCII bytes of "123456789".
C23_ChecksumIsCrc8 ==
    lastOp = "generateCrc"
    => /\ ret = <<Crc8Definition(args)>>
       /\ args = <<49>> => ret = <<88>>
       /\ args = <<49, 50, 51, 52>> => ret = <<203>>
       /\ args = <<1, 2>> => ret = <<23>>
       /\ args = <<49, 50, 51, 52, 53, 54, 55, 56, 57>> => ret = <<247>>

\* the checksum of "123456789" was taken and is 0xF7
C23_Witness ==
    /\ lastOp = "generateCrc"
    /\ args = <<49, 50, 51, 52, 53, 54, 55, 56, 57>>
    /\ ret = <<Crc8Check>>

\* the checksum of the empty sequence was taken and is the initial value
C23_WitnessEmpty ==
    /\ lastOp = "generateCrc"
    /\ args = <<>>
    /\ ret = <<255>>

\* C24: for every list of 1 to 4 words, combineWords returns the 64-bit
\* value whose four 16-bit digits, the most significant first, are zeros
\* followed by the words of the list in their order: the words concatenated
\* big-endian, below 2^(16 * length); 0x12345678 for 1234, 5678 and
\* 0x43218765DCBE for 4321, 8765, DCBE.
C24_CombineBigEndian ==
    lastOp = "combineWords"
    => LET zeros == 4 - Len(args)
       IN  /\ Len(args) \in 1..4
           /\ Len(ret) = 4
           /\ \A i \in 1..zeros : ret[i] = 0
           /\ \A i \in 1..Len(args) : ret[zeros + i] = args[i]
           /\ args = <<4660, 22136>> => ret = <<0, 0, 4660, 22136>>
           /\ args = <<17185, 34661, 56510>> => ret = <<0, 17185, 34661, 56510>>

\* the words 4321, 8765, DCBE were combined into 0x0000 4321 8765 DCBE
C24_Witness ==
    /\ lastOp = "combineWords"
    /\ args = <<17185, 34661, 56510>>
    /\ ret = <<0, 17185, 34661, 56510>>

\* four words were combined into 0x1234 5678 90AB CDEF
C24_WitnessFour ==
    /\ lastOp = "combineWords"
    /\ args = <<4660, 22136, 37035, 52719>>
    /\ ret = <<4660, 22136, 37035, 52719>>

\* one word was combined into 0xFFFF
C24_WitnessOne ==
    /\ lastOp = "combineWords"
    /\ args = <<65535>>
    /\ ret = <<0, 0, 0, 65535>>

====
